---- MODULE Spec2Model ----
(***************************************************************************)
(* State-machine model of the auto-report pipeline:                        *)
(*   src/src/ai_summary.py        AiSummary.generate_ai_summary            *)
(*   src/src/data_ingestion.py    DataIngestion.generate_basic_stats       *)
(*   src/src/eda_visualization.py generate_visualizations                  *)
(*   src/src/pdf_report.py        generate_pdf_report                      *)
(*   src/src/main.py              generate_report                          *)
(*                                                                         *)
(* Text is a sequence of tokens.  A token is one character ("a", "sp" for  *)
(* a blank, "nl" for a line feed, "q" for a double quote, "bs" for a       *)
(* backslash, ...) or one fixed literal of the program that is never       *)
(* split (the section headers, "<br/>").                                   *)
(***************************************************************************)
EXTENDS Integers, Sequences, FiniteSets, TLC

VARIABLES
    \* ---- AiSummary.generate_ai_summary ----
    model,        \* self.model: which interfaces the object exposes
    backend,      \* what the backend does on its 1st, 2nd, ... call (a scripted stub)
    csv_data,     \* the statistics text passed in
    prompt,       \* the prompt built before the retry loop
    apc,          \* position: "idle", "loop", "returned"
    attempt,      \* number of loop iterations started
    calls,        \* backend calls made so far: interface used and behaviour met
    outcomes,     \* per finished iteration: "none" (returned) or the exception caught
    report,       \* the local `report` of the latest iteration
    last_exc,     \* last exception caught
    result,       \* the value returned
    diag          \* diagnostic trace printed by the adapter

VARIABLES
    \* ---- generate_report ----
    api_key,              \* TRUE iff OPENAI_API_KEY is set
    df_oai,               \* the DataFrame argument, or NoDF
    pc,                   \* position in generate_report
    basic_summary,        \* the statistics summary
    basic_text,           \* its serialized text
    ai_summary,           \* the narrative returned by the adapter
    visualization_paths,  \* the chart paths returned by generate_visualizations
    missing_branch,       \* branch taken by the missing-data chart
    pdf,                  \* the PDF document written, or NoFile
    txt,                  \* the text file written, or NoFile
    report_text,          \* the combined text
    returned,             \* the value returned to the caller
    thrown,               \* the exception first raised inside generate_report, or "none"
    escaped,              \* the exception that reached the caller, or "none"
    log,                  \* diagnostics printed by generate_report
    trace,                \* stages completed, in order
    disk,                 \* names of the files on disk
    now                   \* wall clock, in seconds

VARIABLES
    \* ---- PDFReportGenerator.generate_pdf_report, called on its own ----
    pdf_basic_text,       \* the basic_text argument
    unreadable,           \* files on disk that do not load as an image
    story                 \* the flowables of the document, in order

VARIABLES
    \* ---- a second run of generate_report, in another process ----
    other                 \* its position, its dataset and the files it has written

adapterVars == <<model, backend, csv_data, prompt, apc, attempt, calls, outcomes,
                 report, last_exc, result, diag>>

reportVars == <<api_key, df_oai, pc, basic_summary, basic_text, ai_summary,
                visualization_paths, missing_branch, pdf, txt, report_text,
                returned, thrown, escaped, log, trace, disk, now>>

pdfVars == <<pdf_basic_text, unreadable, story>>

otherVars == <<other>>

vars == <<adapterVars, reportVars, pdfVars, otherVars>>

----------------------------------------------------------------------------
(* Python values that a response field may hold *)
NoneV == [t |-> "none"]
IntV == [t |-> "int"]
StrV(s) == [t |-> "str", s |-> s]
BytesV(s) == [t |-> "bytes", s |-> s]

(* the values that have a strip() method; None and int have none *)
HasStrip(v) == v.t \in {"str", "bytes"}

(* str.strip(): drop leading and trailing whitespace *)
IsSpace(c) == c \in {"sp", "nl"}

RECURSIVE LStrip(_)
LStrip(s) ==
    IF s = <<>> THEN s
    ELSE IF IsSpace(Head(s)) THEN LStrip(Tail(s)) ELSE s

RECURSIVE RStrip(_)
RStrip(s) ==
    IF s = <<>> THEN s
    ELSE IF IsSpace(s[Len(s)]) THEN RStrip(SubSeq(s, 1, Len(s) - 1)) ELSE s

Strip(s) == RStrip(LStrip(s))

(* report.strip(): a str gives a str, bytes give bytes *)
StripValue(v) == [v EXCEPT !.s = Strip(@)]

----------------------------------------------------------------------------
(* AiSummary.generate_ai_summary *)

max_retries_three == 2 + 1
max_retries_one == 2 - 1

max_retries == 2

Raise(e) == [exc |-> e, report |-> NoneV]
Ok(v) == [exc |-> "none", report |-> v]

(* prompt_parts joined by "\n"; context is None *)
BuildPrompt(text) ==
    <<"You are a data analyst.", "nl",
      "Given the following CSV summary/data, provide a concise, clear analysis and actionable insights.", "nl",
      "CSV Data Summary:", "nl">> \o text

(* which interface of self.model the loop body calls *)
CallInterface(m) ==
    IF m.hasComplete THEN "complete"
    ELSE IF m.hasGenerate THEN "generate"
    ELSE IF m.isCallable THEN "call"
    ELSE "unsupported"

(* message = response['choices'][0].get('message', {}); message.get('content') *)
DictContent(c) == IF c.hasMessage THEN c.content ELSE NoneV

(* faulty variant: the flat .text shape is tried before the choices shapes *)
ExtractReportTextFirst(r) ==
    IF r.hasText THEN Ok(r.text)
    ELSE IF r.hasChoicesAttr /\ r.choices = <<>> THEN Raise("IndexError")
    ELSE IF r.hasChoicesAttr /\ r.choices[1].hasMessage THEN Ok(r.choices[1].content)
    ELSE IF r.isDict /\ r.hasChoicesKey THEN
        IF r.dchoices = <<>> THEN Raise("IndexError")
        ELSE Ok(DictContent(r.dchoices[1]))
    ELSE Ok(StrV(r.str))

(* the if/elif chain that fills `report` from the raw response *)
ExtractReport(r) ==
    IF r.hasChoicesAttr /\ r.choices = <<>> THEN Raise("IndexError")
    ELSE IF r.hasChoicesAttr /\ r.choices[1].hasMessage THEN Ok(r.choices[1].content)
    ELSE IF r.isDict /\ r.hasChoicesKey THEN
        IF r.dchoices = <<>> THEN Raise("IndexError")
        ELSE Ok(DictContent(r.dchoices[1]))
    ELSE IF r.hasText THEN Ok(r.text)
    ELSE Ok(StrV(r.str))

(* one iteration of the retry loop: call, extract, check, strip *)
AttemptBody(m, beh) ==
    IF CallInterface(m) = "unsupported" THEN Raise("RuntimeError")
    ELSE IF beh.raises THEN Raise("BackendError")
    ELSE LET ex == ExtractReport(beh.response) IN
         IF ex.exc # "none" THEN ex
         ELSE IF ex.report = NoneV THEN [exc |-> "ValueError", report |-> NoneV]
         ELSE IF ~HasStrip(ex.report) THEN [exc |-> "AttributeError", report |-> ex.report]
         ELSE ex

----------------------------------------------------------------------------
(* Inputs of the adapter *)

Models == [hasComplete : BOOLEAN, hasGenerate : BOOLEAN, isCallable : BOOLEAN]

(* model_callable built by get_ai_model: a plain function *)
OpenAICallable == [hasComplete |-> FALSE, hasGenerate |-> FALSE, isCallable |-> TRUE]

ObjContents == {StrV(<<"sp", "m", "nl">>), StrV(<<"m", "nl", "m">>), StrV(<<>>), NoneV, IntV,
                BytesV(<<"sp", "m">>)}
DictContents == {StrV(<<"d", "sp">>), NoneV}
TextValues == {StrV(<<"nl", "t">>), NoneV}
StrForm == <<"r">>

ObjChoices ==
    {<<>>, <<[hasMessage |-> FALSE, content |-> NoneV]>>}
    \cup {<<[hasMessage |-> TRUE, content |-> c]>> : c \in ObjContents}

DictChoices ==
    {<<>>, <<[hasMessage |-> FALSE, content |-> NoneV]>>}
    \cup {<<[hasMessage |-> TRUE, content |-> c]>> : c \in DictContents}

ObjResponses ==
    {[isDict |-> FALSE, hasChoicesAttr |-> TRUE, choices |-> ch,
      hasChoicesKey |-> FALSE, dchoices |-> <<>>,
      hasText |-> ht, text |-> IF ht THEN StrV(<<"nl", "t">>) ELSE NoneV,
      str |-> StrForm] : ch \in ObjChoices, ht \in BOOLEAN}
    \cup
    {[isDict |-> FALSE, hasChoicesAttr |-> FALSE, choices |-> <<>>,
      hasChoicesKey |-> FALSE, dchoices |-> <<>>,
      hasText |-> TRUE, text |-> tv, str |-> StrForm] : tv \in TextValues}
    \cup
    {[isDict |-> FALSE, hasChoicesAttr |-> FALSE, choices |-> <<>>,
      hasChoicesKey |-> FALSE, dchoices |-> <<>>,
      hasText |-> FALSE, text |-> NoneV, str |-> StrForm]}

DictResponses ==
    {[isDict |-> TRUE, hasChoicesAttr |-> FALSE, choices |-> <<>>,
      hasChoicesKey |-> TRUE, dchoices |-> dc,
      hasText |-> FALSE, text |-> NoneV, str |-> StrForm] : dc \in DictChoices}
    \cup
    {[isDict |-> TRUE, hasChoicesAttr |-> FALSE, choices |-> <<>>,
      hasChoicesKey |-> FALSE, dchoices |-> <<>>,
      hasText |-> FALSE, text |-> NoneV, str |-> StrForm]}

Responses == ObjResponses \cup DictResponses

NoResponse == [isDict |-> FALSE, hasChoicesAttr |-> FALSE, choices |-> <<>>,
               hasChoicesKey |-> FALSE, dchoices |-> <<>>,
               hasText |-> FALSE, text |-> NoneV, str |-> <<>>]

Behaviours ==
    {[raises |-> TRUE, response |-> NoResponse]}
    \cup {[raises |-> FALSE, response |-> r] : r \in Responses}

(* what the OpenAI client may do: raise, or return a ChatCompletion object *)
OpenAIBehaviours ==
    {[raises |-> TRUE, response |-> NoResponse]}
    \cup {[raises |-> FALSE, response |-> r] :
            r \in {x \in ObjResponses : x.hasChoicesAttr /\ ~x.hasText
                                         /\ (x.choices = <<>> \/ x.choices[1].hasMessage)}}

----------------------------------------------------------------------------
(* Actions of generate_ai_summary *)

(* lines 60-84: build and print the prompt, enter the loop *)
EnterGenerateAiSummary(text) ==
    /\ apc = "idle"
    /\ csv_data' = text
    /\ prompt' = BuildPrompt(text)
    /\ diag' = Append(diag, "Prompt")
    /\ attempt' = 0
    /\ last_exc' = "none"
    /\ apc' = "loop"
    /\ UNCHANGED <<backend, calls, outcomes, report, result, pdfVars, otherVars>>

(* lines 85-123: one iteration of `for attempt in range(max_retries)` *)
Attempt(B) ==
    /\ apc = "loop"
    /\ attempt < max_retries
    /\ \E beh \in B :
        LET out == AttemptBody(model, beh)
            iface == CallInterface(model)
        IN  /\ attempt' = attempt + 1
            /\ calls' = IF iface = "unsupported" THEN calls
                        ELSE Append(calls, [iface |-> iface, beh |-> beh])
            /\ outcomes' = Append(outcomes, out.exc)
            /\ report' = out.report
            /\ IF out.exc = "none"
               THEN /\ result' = StripValue(out.report)
                    /\ apc' = "returned"
                    /\ last_exc' = last_exc
               ELSE /\ result' = result
                    /\ apc' = "loop"
                    /\ last_exc' = out.exc
    /\ UNCHANGED <<model, backend, csv_data, prompt, diag, reportVars, pdfVars, otherVars>>

(* lines 125-127: the loop ran out; print the last error, return None *)
Exhausted ==
    /\ apc = "loop"
    /\ attempt >= max_retries
    /\ diag' = Append(diag, "LLM call failed")
    /\ result' = NoneV
    /\ apc' = "returned"
    /\ UNCHANGED <<model, backend, csv_data, prompt, attempt, calls, outcomes, report, last_exc>>
    /\ UNCHANGED <<reportVars, pdfVars, otherVars>>

AdapterIdle ==
    /\ csv_data = <<>>
    /\ prompt = <<>>
    /\ apc = "idle"
    /\ attempt = 0
    /\ calls = <<>>
    /\ outcomes = <<>>
    /\ report = NoneV
    /\ last_exc = "none"
    /\ result = NoneV
    /\ diag = <<>>

----------------------------------------------------------------------------
(* Text helpers *)

RECURSIVE Concat(_)
Concat(ss) == IF ss = <<>> THEN <<>> ELSE Head(ss) \o Concat(Tail(ss))

Indent(n) == [i \in 1..n |-> "sp"]

(* faulty variant: a str is written between quotes as it is *)
JsonEscapeCharRaw(c) == <<c>>

(* json.dumps of a str: control characters, quotes and backslashes are escaped *)
JsonEscapeChar(c) ==
    IF c = "nl" THEN <<"bs", "n">>
    ELSE IF c = "q" THEN <<"bs", "q">>
    ELSE IF c = "bs" THEN <<"bs", "bs">>
    ELSE <<c>>

JsonString(s) == <<"q">> \o Concat([i \in 1..Len(s) |-> JsonEscapeChar(s[i])]) \o <<"q">>

(* repr() of a str inside str(dict) *)
ReprChar(c) ==
    IF c = "nl" THEN <<"bs", "n">>
    ELSE IF c = "bs" THEN <<"bs", "bs">>
    ELSE <<c>>

ReprString(s) == <<"sq">> \o Concat([i \in 1..Len(s) |-> ReprChar(s[i])]) \o <<"sq">>

(* str(x) for the values a narrative may hold *)
PyStr(v) ==
    IF v.t = "str" THEN v.s
    ELSE IF v.t = "none" THEN <<"N", "o", "n", "e">>
    ELSE IF v.t = "bytes" THEN <<"b">> \o ReprString(v.s)
    ELSE <<"7">>

(* str.replace('\n', '<br/>') *)
ReplaceNewlines(s) == [i \in 1..Len(s) |-> IF s[i] = "nl" THEN "<br/>" ELSE s[i]]

----------------------------------------------------------------------------
(* DataIngestion.generate_basic_stats, as far as generate_report uses it *)

(* A DataFrame: its columns (name, dtype, number of missing values and, for a
   categorical column, the value counts in descending order), its number of rows,
   the kind of its column labels, and the pairwise correlation of its numeric
   columns (by position among the numeric columns). *)
NoDF == [cols |-> <<>>, rows |-> 0, key_kind |-> "none", corr |-> <<>>]

NumericDtypes == {"int64", "float64"}
CategoricalDtypes == {"object", "category", "bool"}
NumberDtypes == {"int64", "float64", "int32"}

ColIndices(df, dtypes) == {i \in 1..Len(df.cols) : df.cols[i].dtype \in dtypes}

Reverse(a) == [i \in 1..Len(a) |-> a[Len(a) + 1 - i]]

(* a correlation value: a float in tenths, or NaN *)
NaN == [nan |-> TRUE, v |-> 0]
Float(x) == [nan |-> FALSE, v |-> x]

(* abs() of a float *)
Abs(x) == IF x.nan THEN NaN ELSE Float(IF x.v < 0 THEN 0 - x.v ELSE x.v)

(* x < y on floats: every comparison with NaN is False *)
Lt(x, y) == ~x.nan /\ ~y.nan /\ x.v < y.v

(* the sort key: abs(x['correlation']) *)
SortKey(c) == Abs(c.correlation)

(* list.sort() on fewer than 64 elements: the leading run is found (and reversed
   when strictly descending), the rest is placed by binary insertion *)
RECURSIVE RunLength(_, _, _)
RunLength(a, n, desc) ==
    IF n < Len(a) /\ (IF desc THEN Lt(SortKey(a[n + 1]), SortKey(a[n]))
                              ELSE ~Lt(SortKey(a[n + 1]), SortKey(a[n])))
    THEN RunLength(a, n + 1, desc)
    ELSE n

RECURSIVE InsertionPoint(_, _, _, _)
InsertionPoint(a, pivot, l, r) ==
    IF l >= r THEN l
    ELSE LET m == l + ((r - l) \div 2)
         IN  IF Lt(SortKey(pivot), SortKey(a[m]))
             THEN InsertionPoint(a, pivot, l, m)
             ELSE InsertionPoint(a, pivot, m + 1, r)

RECURSIVE BinarySort(_, _)
BinarySort(a, i) ==
    IF i > Len(a) THEN a
    ELSE LET l == InsertionPoint(a, a[i], 1, i)
         IN  BinarySort(SubSeq(a, 1, l - 1) \o <<a[i]>> \o SubSeq(a, l, i - 1)
                        \o SubSeq(a, i + 1, Len(a)), i + 1)

ListSort(a) ==
    IF Len(a) < 2 THEN a
    ELSE LET desc == Lt(SortKey(a[2]), SortKey(a[1]))
             n == RunLength(a, 2, desc)
         IN  BinarySort(IF desc THEN Reverse(SubSeq(a, 1, n)) \o SubSeq(a, n + 1, Len(a))
                                ELSE a, n + 1)

(* correlations.sort(key=..., reverse=True): reversed, sorted ascending, reversed *)
SortByAbsDescending(a) == Reverse(ListSort(Reverse(a)))

TopN == 5

(* lines 44-51: the pairs (i, j), i < j, of numeric columns, in enumeration order *)
Correlations(df) ==
    LET numeric_cols == ColIndices(df, NumericDtypes)
        n == Cardinality(numeric_cols)
        RECURSIVE Pairs(_, _)
        Pairs(i, j) ==
            IF i > n THEN <<>>
            ELSE IF j > n THEN Pairs(i + 1, i + 2)
            ELSE <<[col1 |-> i, col2 |-> j, correlation |-> df.corr[<<i, j>>]]>>
                 \o Pairs(i, j + 1)
    IN  Pairs(1, 2)

(* lines 41-53: numeric_stats["top_correlations"], absent unless 2 or more numeric columns *)
TopCorrelations(df) ==
    IF Cardinality(ColIndices(df, NumericDtypes)) > 1
    THEN SubSeq(SortByAbsDescending(Correlations(df)), 1,
                IF Len(Correlations(df)) < TopN THEN Len(Correlations(df)) ELSE TopN)
    ELSE <<>>

RECURSIVE Power(_, _)
Power(b, e) == IF e = 0 THEN 1 ELSE b * Power(b, e - 1)

RECURSIVE SumSeq(_)
SumSeq(a) == IF a = <<>> THEN 0 ELSE Head(a) + SumSeq(Tail(a))

RECURSIVE SelfPowers(_)
SelfPowers(a) == IF a = <<>> THEN 1 ELSE Power(Head(a), Head(a)) * SelfPowers(Tail(a))

EntropyMaxUnique == 50

(* lines 66-68: probs = value_counts / len(csv_data); -sum(probs * log2(probs)).
   With counts c_1..c_k and N rows the sum is (1/N) * log2(N^(c_1+..+c_k) /
   (c_1^c_1 * .. * c_k^c_k)); the entropy e is kept exactly, as the numerator
   and denominator of 2^(N*e). *)
Entropy(value_counts, rows) ==
    [num |-> Power(rows, SumSeq(value_counts)),
     den |-> SelfPowers(value_counts),
     rows |-> rows]

(* lines 57-68: the statistics of one categorical column *)
CategoricalStats(df, i) ==
    LET value_counts == df.cols[i].counts
        unique_count == Len(value_counts)
    IN  [unique_values |-> unique_count,
         null_count |-> df.cols[i].missing,
         is_binary |-> unique_count = 2,
         has_entropy |-> unique_count < EntropyMaxUnique,
         entropy |-> Entropy(value_counts, df.rows)]

GenerateBasicStats(df) ==
    [rows |-> df.rows,
     columns |-> Len(df.cols),
     names |-> [i \in 1..Len(df.cols) |-> df.cols[i].name],
     missing_values |-> [i \in 1..Len(df.cols) |-> df.cols[i].missing],
     dtypes |-> [i \in 1..Len(df.cols) |-> df.cols[i].dtype],
     has_numeric |-> ColIndices(df, NumericDtypes) # {},
     top_correlations |-> TopCorrelations(df),
     categorical |-> ColIndices(df, CategoricalDtypes),
     categorical_stats |-> [i \in ColIndices(df, CategoricalDtypes) |->
                               CategoricalStats(df, i)],
     key_kind |-> df.key_kind]

----------------------------------------------------------------------------
(* json.dumps(basic_summary, indent=2, default=str) and str(basic_summary) *)

(* json.dumps raises TypeError on a key that is not str, int, float, bool or None *)
JsonSerializable(s) == s.key_kind = "str"

Comma(i, n) == IF i < n THEN <<",">> ELSE <<>>

(* a dict keyed by the column labels: one "name": value line per column *)
ColumnLines(s, ind, values) ==
    Concat([i \in 1..s.columns |->
        Indent(ind) \o JsonString(s.names[i]) \o <<":", "sp">> \o values[i]
        \o Comma(i, s.columns) \o <<"nl">>])

JsonDumps(s) ==
    LET missing == [i \in 1..s.columns |-> <<ToString(s.missing_values[i])>>]
        dtype == [i \in 1..s.columns |-> JsonString(<<s.dtypes[i]>>)]
        cat == Concat([i \in 1..s.columns |->
                   IF i \in s.categorical
                   THEN Indent(4) \o JsonString(s.names[i]) \o <<":", "sp", "{...}">>
                        \o (IF \E j \in s.categorical : j > i THEN <<",">> ELSE <<>>)
                        \o <<"nl">>
                   ELSE <<>>])
    IN  <<"{", "nl">>
        \o Indent(2) \o <<"q", "basic_stats", "q", ":", "sp", "{", "nl">>
        \o Indent(4) \o <<"q", "rows", "q", ":", "sp", ToString(s.rows), ",", "nl">>
        \o Indent(4) \o <<"q", "columns", "q", ":", "sp", ToString(s.columns), ",", "nl">>
        \o Indent(4) \o <<"q", "missing_values", "q", ":", "sp", "{", "nl">>
        \o ColumnLines(s, 6, missing)
        \o Indent(4) \o <<"}", ",", "nl">>
        \o Indent(4) \o <<"q", "dtypes", "q", ":", "sp", "{", "nl">>
        \o ColumnLines(s, 6, dtype)
        \o Indent(4) \o <<"}", ",", "nl">>
        \o Indent(4) \o <<"q", "memory_usage", "q", ":", "sp", "0.001", "nl">>
        \o Indent(2) \o <<"}", ",", "nl">>
        \o Indent(2) \o <<"q", "numeric_stats", "q", ":", "sp">>
        \o (IF s.has_numeric THEN <<"{...}">> ELSE <<"{}">>) \o <<",", "nl">>
        \o Indent(2) \o <<"q", "categorical_stats", "q", ":", "sp", "{", "nl">>
        \o cat
        \o Indent(2) \o <<"}", ",", "nl">>
        \o Indent(2) \o <<"q", "datetime_stats", "q", ":", "sp", "{}", "nl">>
        \o <<"}">>

(* repr() of a column label: a str, or a 1-tuple holding it *)
ReprKey(s, i) ==
    IF s.key_kind = "tuple" THEN <<"(">> \o ReprString(s.names[i]) \o <<",", ")">>
    ELSE ReprString(s.names[i])

(* str(dict): one line, keys and values by repr() *)
PyStrDict(s) ==
    <<"{", "sq", "basic_stats", "sq", ":", "sp", "{">>
    \o Concat([i \in 1..s.columns |->
        ReprKey(s, i) \o <<":", "sp", ToString(s.missing_values[i])>>
        \o IF i < s.columns THEN <<",", "sp">> ELSE <<>>])
    \o <<"}", "...", "}">>

(* main.py lines 59-62 *)
SerializeSummary(s) == IF JsonSerializable(s) THEN JsonDumps(s) ELSE PyStrDict(s)

(* main.py lines 98-105 *)
BuildReportText(text, narrative) ==
    <<"=== BASIC STATISTICS ===", "nl">> \o text
    \o <<"nl", "nl", "=== AI-INTERPRETATION ===", "nl">>
    \o (IF narrative.t = "str" THEN narrative.s ELSE PyStr(narrative))

----------------------------------------------------------------------------
(* generate_visualizations *)

File(dir, name, ts) == [dir |-> dir, name |-> name, ts |-> ts]
NoFile == [dir |-> "", name |-> "", ts |-> 0 - 1]

ChartFile(name) == File("reports/visualizations", name, 0 - 1)

TotalMissing(df) ==
    LET RECURSIVE Sum(_)
        Sum(i) == IF i = 0 THEN 0 ELSE df.cols[i].missing + Sum(i - 1)
    IN  Sum(Len(df.cols))

(* faulty variant: the box plots are not added to the list *)
GenerateVisualizationsNoBoxplots(df) ==
    LET numeric_cols == ColIndices(df, NumberDtypes)
        categorical_cols == ColIndices(df, {"object"})
    IN  [saved_files |->
            (IF Cardinality(numeric_cols) > 1
                THEN <<ChartFile("01_correlation_heatmap.png")>> ELSE <<>>)
            \o (IF numeric_cols # {} THEN <<ChartFile("02_histograms.png")>> ELSE <<>>)
            \o (IF categorical_cols # {}
                THEN <<ChartFile("04_categorical_distributions.png")>> ELSE <<>>)
            \o <<ChartFile("05_missing_data.png"),
                 ChartFile("06_datatype_distribution.png")>>,
         missing_branch |->
            IF TotalMissing(df) > 0 THEN "bars" ELSE "No Missing Data Found"]

(* the chart files saved, in order, and the branch of the missing-data chart *)
GenerateVisualizations(df) ==
    LET numeric_cols == ColIndices(df, NumberDtypes)
        categorical_cols == ColIndices(df, {"object"})
    IN  [saved_files |->
            (IF Cardinality(numeric_cols) > 1
                THEN <<ChartFile("01_correlation_heatmap.png")>> ELSE <<>>)
            \o (IF numeric_cols # {}
                THEN <<ChartFile("02_histograms.png"), ChartFile("03_boxplots.png")>>
                ELSE <<>>)
            \o (IF categorical_cols # {}
                THEN <<ChartFile("04_categorical_distributions.png")>> ELSE <<>>)
            \o <<ChartFile("05_missing_data.png"),
                 ChartFile("06_datatype_distribution.png")>>,
         missing_branch |->
            IF TotalMissing(df) > 0 THEN "bars" ELSE "No Missing Data Found"]

----------------------------------------------------------------------------
(* pdf_report.py *)

(* PDFReportGenerator._format_statistics_for_pdf on the parsed summary *)
FormatStatisticsForPdf(s) ==
    <<"<b>Dataset Overview:</b><br/>",
      "Rows: ", ToString(s.rows), "<br/>",
      "Columns: ", ToString(s.columns), "<br/>",
      "Memory Usage: ", "0.00", " MB<br/><br/>",
      "<b>Numeric Columns Summary:</b><br/>">>
    \o (IF s.has_numeric
        THEN <<"Descriptive statistics available for numeric columns<br/><br/>">>
        ELSE <<>>)

(* faulty variant: .replace() is called on the narrative itself, without str() *)
PdfInsightsNoStr(narrative) ==
    IF narrative.t = "str"
    THEN [exc |-> "none", text |-> ReplaceNewlines(narrative.s)]
    ELSE [exc |-> "AttributeError", text |-> <<>>]

(* lines 129-134: the text of the AI-Generated Insights paragraph *)
PdfInsights(narrative) ==
    [exc |-> "none",
     text |-> ReplaceNewlines(IF narrative.t = "str" THEN narrative.s ELSE PyStr(narrative))]

(* lines 143-154: the charts embedded, a path that is no file on disk is passed over *)
PdfImages(paths, files) == SelectSeq(paths, LAMBDA p : p \in files)

(* generate_pdf_report (lines 187-212) around PDFReportGenerator.generate_pdf_report *)
GeneratePdfReport(stats, narrative, paths, files, ts, build_ok) ==
    IF ~JsonSerializable(stats) THEN [exc |-> "TypeError", doc |-> NoFile]
    ELSE IF PdfInsights(narrative).exc # "none"
        THEN [exc |-> PdfInsights(narrative).exc, doc |-> NoFile]
    ELSE IF ~build_ok THEN [exc |-> "OSError", doc |-> NoFile]
    ELSE [exc |-> "none",
          doc |-> [file |-> File("reports", "report_.pdf", ts),
                   stats |-> FormatStatisticsForPdf(stats),
                   insights |-> PdfInsights(narrative).text,
                   images |-> PdfImages(paths, files)]]

----------------------------------------------------------------------------
(* generate_report *)

MaxClock == 1

Stages == <<"stats", "llm", "charts", "pdf", "text">>

(* faulty variant: the charts are rendered before the adapter is called *)
NextStageChartsFirst(stage) ==
    IF stage = "start" THEN "stats"
    ELSE IF stage = "stats" THEN "charts"
    ELSE IF stage = "charts" THEN "llm"
    ELSE IF stage = "llm" THEN "pdf"
    ELSE IF stage = "pdf" THEN "text"
    ELSE "done"

(* the statement that follows a completed stage *)
NextStage(stage) ==
    IF stage = "start" THEN "stats"
    ELSE IF stage = "stats" THEN "llm"
    ELSE IF stage = "llm" THEN "charts"
    ELSE IF stage = "charts" THEN "pdf"
    ELSE IF stage = "pdf" THEN "text"
    ELSE "done"

(* faulty variant: the handler re-raises without printing *)
ExceptHandlerSilent(lg, e) == [log |-> lg, escaped |-> e]

(* lines 120-122: print the diagnostic, then re-raise *)
ExceptHandler(lg, e) ==
    [log |-> Append(lg, "Error generating report"), escaped |-> e]

(* an exception raised inside the try block *)
Fail(e) ==
    /\ thrown' = e
    /\ log' = ExceptHandler(log, e).log
    /\ escaped' = ExceptHandler(log, e).escaped
    /\ pc' = "raised"

(* lines 31-47: the API key check, before the try; the DataFrame check, inside it *)
CheckConfig ==
    /\ pc = "start"
    /\ IF ~api_key
       THEN /\ thrown' = "RuntimeError: OPENAI_API_KEY not found"
            /\ escaped' = "RuntimeError: OPENAI_API_KEY not found"
            /\ pc' = "raised"
            /\ log' = log
       ELSE IF df_oai = NoDF
       THEN Fail("ValueError: df_oai was not provided")
       ELSE /\ pc' = NextStage("start")
            /\ log' = Append(log, "Generating comprehensive report...")
            /\ UNCHANGED <<escaped, thrown>>
    /\ UNCHANGED <<api_key, df_oai, basic_summary, basic_text, ai_summary,
                   visualization_paths, missing_branch, pdf, txt, report_text,
                   returned, trace, disk, now>>
    /\ UNCHANGED <<adapterVars, pdfVars, otherVars>>

(* lines 51-62: statistics, then their text *)
ComputeStats ==
    /\ pc = "stats"
    /\ \E ok \in BOOLEAN :
        IF ok
        THEN /\ basic_summary' = GenerateBasicStats(df_oai)
             /\ basic_text' = SerializeSummary(GenerateBasicStats(df_oai))
             /\ trace' = Append(trace, "stats")
             /\ pc' = NextStage("stats")
             /\ UNCHANGED <<log, escaped, thrown>>
        ELSE /\ Fail("stats error")
             /\ UNCHANGED <<basic_summary, basic_text, trace>>
    /\ UNCHANGED <<api_key, df_oai, ai_summary, visualization_paths, missing_branch,
                   pdf, txt, report_text, returned, disk, now>>
    /\ UNCHANGED <<adapterVars, pdfVars, otherVars>>

(* lines 65-70: get_ai_model, then the call of generate_ai_summary *)
CallAdapter ==
    /\ pc = "llm"
    /\ apc = "idle"
    /\ \E sdk \in BOOLEAN :
        IF sdk
        THEN /\ model' = OpenAICallable
             /\ EnterGenerateAiSummary(basic_text)
             /\ UNCHANGED reportVars
        ELSE /\ Fail("ImportError: OpenAI SDK not installed")
             /\ UNCHANGED <<api_key, df_oai, basic_summary, basic_text, ai_summary,
                            visualization_paths, missing_branch, pdf, txt,
                            report_text, returned, trace, disk, now>>
             /\ UNCHANGED <<adapterVars, pdfVars, otherVars>>

(* lines 70-73: the adapter has returned; the narrative is printed *)
ReturnSummary ==
    /\ pc = "llm"
    /\ apc = "returned"
    /\ ai_summary' = result
    /\ log' = Append(log, "ai_summary")
    /\ trace' = Append(trace, "llm")
    /\ pc' = NextStage("llm")
    /\ UNCHANGED <<api_key, df_oai, basic_summary, basic_text, visualization_paths,
                   missing_branch, pdf, txt, report_text, returned, thrown, escaped,
                   disk, now>>
    /\ UNCHANGED <<adapterVars, pdfVars, otherVars>>

(* lines 76-78: the charts *)
RenderCharts ==
    /\ pc = "charts"
    /\ \E ok \in BOOLEAN :
        IF ok
        THEN /\ visualization_paths' = GenerateVisualizations(df_oai).saved_files
             /\ missing_branch' = GenerateVisualizations(df_oai).missing_branch
             /\ disk' = disk \cup {GenerateVisualizations(df_oai).saved_files[i] :
                                    i \in 1..Len(GenerateVisualizations(df_oai).saved_files)}
             /\ trace' = Append(trace, "charts")
             /\ pc' = NextStage("charts")
             /\ UNCHANGED <<log, escaped, thrown>>
        ELSE /\ Fail("chart error")
             /\ UNCHANGED <<visualization_paths, missing_branch, disk, trace>>
    /\ UNCHANGED <<api_key, df_oai, basic_summary, basic_text, ai_summary, pdf, txt,
                   report_text, returned, now>>
    /\ UNCHANGED <<adapterVars, pdfVars, otherVars>>

(* lines 80-89: the PDF *)
BuildPdf ==
    /\ pc = "pdf"
    /\ \E build_ok \in BOOLEAN :
        LET out == GeneratePdfReport(basic_summary, ai_summary, visualization_paths,
                                     disk, now, build_ok)
        IN  IF out.exc = "none"
            THEN /\ pdf' = out.doc
                 /\ disk' = disk \cup {out.doc.file}
                 /\ trace' = Append(trace, "pdf")
                 /\ pc' = NextStage("pdf")
                 /\ UNCHANGED <<log, escaped, thrown>>
            ELSE /\ Fail(out.exc)
                 /\ UNCHANGED <<pdf, disk, trace>>
    /\ UNCHANGED <<api_key, df_oai, basic_summary, basic_text, ai_summary,
                   visualization_paths, missing_branch, txt, report_text, returned, now>>
    /\ UNCHANGED <<adapterVars, pdfVars, otherVars>>

(* faulty variant: the path of the text file is returned in place of the PDF's *)
ReturnValueTextPath(pdf_file, output_file, text) ==
    [pdf_file |-> output_file, report_text |-> text]

(* line 118: return str(pdf_file), report_text *)
ReturnValue(pdf_file, output_file, text) ==
    [pdf_file |-> pdf_file, report_text |-> text]

(* lines 91-118: the text file, and the return *)
WriteText ==
    /\ pc = "text"
    /\ \E ok \in BOOLEAN :
        LET text == BuildReportText(basic_text, ai_summary)
            output_file == File("reports", "whr_2015_analysis_.txt", now)
        IN  IF ok
            THEN /\ report_text' = text
                 /\ txt' = [file |-> output_file, content |-> text]
                 /\ disk' = disk \cup {output_file}
                 /\ returned' = ReturnValue(pdf.file, output_file, text)
                 /\ log' = log \o <<"Text report saved", "PDF report generated">>
                 /\ trace' = Append(trace, "text")
                 /\ pc' = NextStage("text")
                 /\ UNCHANGED <<escaped, thrown>>
            ELSE /\ Fail("OSError")
                 /\ report_text' = text
                 /\ UNCHANGED <<txt, disk, returned, trace>>
    /\ UNCHANGED <<api_key, df_oai, basic_summary, basic_text, ai_summary,
                   visualization_paths, missing_branch, pdf, now>>
    /\ UNCHANGED <<adapterVars, pdfVars, otherVars>>

(* time passes while the run is under way *)
Tick ==
    /\ pc \notin {"done", "raised"}
    /\ now < MaxClock
    /\ now' = now + 1
    /\ UNCHANGED <<api_key, df_oai, pc, basic_summary, basic_text, ai_summary,
                   visualization_paths, missing_branch, pdf, txt, report_text,
                   returned, thrown, escaped, log, trace, disk>>
    /\ UNCHANGED <<adapterVars, pdfVars, otherVars>>

(* the retry loop, while generate_report waits for the narrative *)
LlmAttempt == pc = "llm" /\ Attempt(OpenAIBehaviours)
LlmExhausted == pc = "llm" /\ Exhausted

----------------------------------------------------------------------------
(* Inputs of generate_report *)

PipelineCols ==
    {[name |-> <<"a">>, dtype |-> "int64", missing |-> 0, counts |-> <<>>],
     [name |-> <<"nl", "=== AI-INTERPRETATION ===", "nl">>, dtype |-> "object",
      missing |-> 1, counts |-> <<1>>],
     [name |-> <<"b", "q">>, dtype |-> "float64", missing |-> 0, counts |-> <<>>]}

(* every pair of numeric columns with the same correlation *)
UniformCorr(cols, x) ==
    LET n == Cardinality({i \in 1..Len(cols) : cols[i].dtype \in NumericDtypes})
    IN  [p \in {q \in (1..n) \X (1..n) : q[1] < q[2]} |-> x]

PipelineFrames ==
    {[cols |-> c, rows |-> 2, key_kind |-> k, corr |-> UniformCorr(c, Float(3))] :
        c \in {<<x>> : x \in PipelineCols}
              \cup {y \in PipelineCols \X PipelineCols : y[1] # y[2]},
        k \in {"str", "tuple"}}

NoSummary == GenerateBasicStats(NoDF)

(* generate_pdf_report of the class has not been called on its own *)
PdfIdle ==
    /\ pdf_basic_text = NoneV
    /\ unreadable = {}
    /\ story = <<>>

(* no second run *)
OtherIdle == other = [pc |-> "none", df |-> NoDF, written |-> {}, stamps |-> {}]

ReportIdle ==
    /\ basic_summary = NoSummary
    /\ basic_text = <<>>
    /\ ai_summary = NoneV
    /\ visualization_paths = <<>>
    /\ missing_branch = ""
    /\ pdf = [file |-> NoFile, stats |-> <<>>, insights |-> <<>>, images |-> <<>>]
    /\ txt = [file |-> NoFile, content |-> <<>>]
    /\ report_text = <<>>
    /\ returned = [pdf_file |-> NoFile, report_text |-> <<>>]
    /\ thrown = "none"
    /\ escaped = "none"
    /\ log = <<>>
    /\ trace = <<>>
    /\ disk = {}
    /\ now = 0

Init ==
    /\ api_key \in BOOLEAN
    /\ df_oai \in PipelineFrames \cup {NoDF}
    /\ pc = "start"
    /\ model = [hasComplete |-> FALSE, hasGenerate |-> FALSE, isCallable |-> FALSE]
    /\ backend = <<>>
    /\ AdapterIdle
    /\ ReportIdle
    /\ PdfIdle
    /\ OtherIdle

Next ==
    \/ CheckConfig
    \/ ComputeStats
    \/ CallAdapter
    \/ LlmAttempt
    \/ LlmExhausted
    \/ ReturnSummary
    \/ RenderCharts
    \/ BuildPdf
    \/ WriteText
    \/ Tick

Spec == Init /\ [][Next]_vars

----------------------------------------------------------------------------
(* generate_ai_summary on its own: a model object and a scripted backend *)

BackendLen == 2

(* the behaviour the scripted backend shows on its next call *)
ScriptedBehaviour ==
    backend[IF Len(calls) + 1 <= Len(backend) THEN Len(calls) + 1 ELSE Len(backend)]

UnitEnter ==
    /\ pc = "unit"
    /\ EnterGenerateAiSummary(<<"{", "}">>)
    /\ UNCHANGED model
    /\ UNCHANGED reportVars

UnitAttempt == pc = "unit" /\ Attempt({ScriptedBehaviour})

UnitExhausted == pc = "unit" /\ Exhausted

InitAdapter ==
    /\ model \in Models
    /\ backend \in [1..BackendLen -> Behaviours]
    /\ api_key = TRUE
    /\ df_oai = NoDF
    /\ pc = "unit"
    /\ AdapterIdle
    /\ ReportIdle
    /\ PdfIdle
    /\ OtherIdle

NextAdapter == UnitEnter \/ UnitAttempt \/ UnitExhausted

SpecAdapter == InitAdapter /\ [][NextAdapter]_vars

----------------------------------------------------------------------------
(* Claims about generate_ai_summary *)

AllAttemptsFailed == \A i \in 1..Len(outcomes) : outcomes[i] # "none"

(* C1: with a model whose every attempt fails (the backend raises, nothing can
   be extracted, or the model has no usable interface) generate_ai_summary makes
   exactly 2 attempts and then returns None; while it is still looping it has
   made at most 2. *)
C1_AllFailTwoAttemptsThenNone ==
    /\ (apc = "returned" /\ AllAttemptsFailed) =>
          /\ Len(outcomes) = 2
          /\ attempt = 2
          /\ result = NoneV
          /\ Len(calls) = (IF CallInterface(model) = "unsupported" THEN 0 ELSE 2)
          /\ last_exc = outcomes[2]
    /\ (apc = "loop" /\ AllAttemptsFailed) => (Len(outcomes) <= 2 /\ Len(calls) <= 2)

C1_Witness ==
    /\ apc = "returned"
    /\ outcomes = <<"BackendError", "ValueError">>
    /\ result = NoneV
    /\ Len(calls) = 2

(* a response that carries text in one of the documented shapes *)
WellFormedContent(b) ==
    /\ ~b.raises
    /\ b.response.hasChoicesAttr
    /\ b.response.choices # <<>>
    /\ b.response.choices[1].hasMessage
    /\ b.response.choices[1].content.t = "str"

(* C2: with a backend that raises on its first call and returns a well-formed
   response on its second, generate_ai_summary returns the (trimmed) text of the
   second response, and the backend has been called exactly twice. *)
C2_RetryThenSucceed ==
    (/\ apc = "returned"
     /\ CallInterface(model) # "unsupported"
     /\ backend[1].raises
     /\ WellFormedContent(backend[2]))
    => /\ result = StrV(Strip(backend[2].response.choices[1].content.s))
       /\ Len(calls) = 2
       /\ calls[1].beh = backend[1]
       /\ calls[2].beh = backend[2]
       /\ outcomes = <<"BackendError", "none">>

C2_Witness ==
    /\ apc = "returned"
    /\ backend[1].raises
    /\ WellFormedContent(backend[2])
    /\ backend[2].response.choices[1].content.s = <<"sp", "m", "nl">>
    /\ result = StrV(<<"m">>)
    /\ Len(calls) = 2

(* the text the documented precedence picks from a response *)
ByPrecedence(r) ==
    IF r.hasChoicesAttr /\ r.choices # <<>> /\ r.choices[1].hasMessage
        THEN r.choices[1].content
    ELSE IF r.isDict /\ r.hasChoicesKey /\ r.dchoices # <<>> THEN
        (IF r.dchoices[1].hasMessage THEN r.dchoices[1].content ELSE NoneV)
    ELSE IF r.hasText THEN r.text
    ELSE StrV(r.str)

ExtractionRan ==
    /\ Len(outcomes) > 0
    /\ Len(calls) = Len(outcomes)
    /\ ~calls[Len(calls)].beh.raises
    /\ outcomes[Len(outcomes)] # "IndexError"

(* C3: whenever an iteration has extracted `report` from a response, the value is
   the one of the first matching shape in the order: .choices[0].message.content,
   ['choices'][0]['message']['content'], .text, str(response); a response with both
   a message content and a .text yields the message content, not the .text. *)
C3_ExtractionPrecedence ==
    ExtractionRan =>
        LET r == calls[Len(calls)].beh.response
        IN  /\ report = ByPrecedence(r)
            /\ (r.hasChoicesAttr /\ r.choices # <<>> /\ r.choices[1].hasMessage
                    /\ r.hasText)
                  => (report = r.choices[1].content /\ report # r.text)

C3_Witness ==
    /\ ExtractionRan
    /\ calls[Len(calls)].beh.response.hasChoicesAttr
    /\ calls[Len(calls)].beh.response.choices[1].hasMessage
    /\ calls[Len(calls)].beh.response.hasText
    /\ report = StrV(<<"sp", "m", "nl">>)
    /\ result = StrV(<<"m">>)

----------------------------------------------------------------------------
(* Claims about generate_report *)

NoneText == <<"N", "o", "n", "e">>

AdapterGaveUp ==
    /\ apc = "returned"
    /\ Len(outcomes) = 2
    /\ AllAttemptsFailed
    /\ Len(trace) >= 2

(* C4: when every attempt of the adapter failed and the narrative is None, the run
   is not stopped by the narrative: a run that finishes has rendered the charts,
   written the PDF and the text file, with "None" as the AI-INTERPRETATION
   section of the text and as the AI-Generated Insights paragraph of the PDF; a
   run that stops after the adapter has returned stops on a chart, PDF or file
   error, never on the narrative. *)
C4_NullNarrativeStillReports ==
    /\ AdapterGaveUp => ai_summary = NoneV
    /\ (AdapterGaveUp /\ pc = "done") =>
          /\ trace = <<"stats", "llm", "charts", "pdf", "text">>
          /\ \A i \in 1..Len(visualization_paths) : visualization_paths[i] \in disk
          /\ pdf.file \in disk
          /\ pdf.insights = NoneText
          /\ txt.file \in disk
          /\ txt.content =
                <<"=== BASIC STATISTICS ===", "nl">> \o basic_text
                \o <<"nl", "nl", "=== AI-INTERPRETATION ===", "nl">> \o NoneText
          /\ escaped = "none"
    /\ (AdapterGaveUp /\ pc = "raised") =>
          escaped \in {"chart error", "TypeError", "OSError"}
    /\ (AdapterGaveUp /\ pc = "raised" /\ escaped = "TypeError") =>
          basic_summary.key_kind # "str"

C4_Witness ==
    /\ AdapterGaveUp
    /\ pc = "done"
    /\ outcomes = <<"BackendError", "ValueError">>
    /\ pdf.insights = NoneText
    /\ txt.file \in disk

(* C5: the stages of a run complete in the order statistics, adapter, charts,
   PDF, text file, each starting only when the one before it is complete: the
   prompt is built only from computed statistics and the text file is written
   only after this run's PDF. *)
C5_StageOrder ==
    /\ trace = SubSeq(<<"stats", "llm", "charts", "pdf", "text">>, 1, Len(trace))
    /\ (apc # "idle") => (Len(trace) >= 1 /\ basic_summary = GenerateBasicStats(df_oai)
                          /\ csv_data = basic_text /\ Len(basic_text) > 0)
    /\ (apc \in {"idle", "loop"}) => Len(trace) <= 1
    /\ (visualization_paths # <<>>) => Len(trace) >= 3
    /\ (pdf.file # NoFile) => (Len(trace) >= 4 /\ pdf.images = visualization_paths)
    /\ (txt.file # NoFile) => (pdf.file # NoFile /\ pdf.file \in disk /\ Len(trace) = 5)
    /\ (pc = "done") => Len(trace) = 5

C5_Witness ==
    /\ pc = "done"
    /\ trace = <<"stats", "llm", "charts", "pdf", "text">>
    /\ txt.file \in disk
    /\ pdf.file \in disk

Logged == Len(log) > 0 /\ log[Len(log)] = "Error generating report"

(* C6 as stated: every exception that ends generate_report, the missing-API-key
   error included, has been logged before it reaches the caller. *)
C6_EveryExceptionLogged ==
    (pc = "raised") => (Logged /\ escaped = thrown /\ escaped # "none")

(* C6 as amended: an exception raised inside the try block (the missing-dataset
   error and every later one) is logged and then re-raised unchanged; the
   missing-API-key error is raised before the try block and reaches the caller
   without the diagnostic. *)
C6_TryBlockExceptionsLogged ==
    /\ (pc = "raised" /\ api_key) => (Logged /\ escaped = thrown /\ escaped # "none")
    /\ (pc = "raised" /\ ~api_key) =>
          (log = <<>> /\ escaped = "RuntimeError: OPENAI_API_KEY not found")
    /\ (pc # "raised") => (escaped = "none" /\ ~Logged)
    /\ (pc = "start" /\ api_key /\ df_oai = NoDF) => ENABLED CheckConfig

C6_Witness ==
    /\ pc = "raised"
    /\ api_key
    /\ df_oai = NoDF
    /\ thrown = "ValueError: df_oai was not provided"
    /\ escaped = thrown
    /\ Logged

----------------------------------------------------------------------------
(* The text assembly of generate_report on its own: lines 58-62 and 98-105 *)

MaxNameLen == 3
MaxNarrativeLen == 2

NameChars == {"nl", "q", "=== AI-INTERPRETATION ==="}
NarrativeChars == {"a", "sp", "nl", "=== AI-INTERPRETATION ==="}

StringsUpTo(chars, n) == UNION {[1..k -> chars] : k \in 0..n}

TextFrames ==
    {[cols |-> <<[name |-> nm, dtype |-> "object", missing |-> 0, counts |-> <<1>>]>>,
      rows |-> 1, key_kind |-> k, corr |-> <<>>] :
        nm \in StringsUpTo(NameChars, MaxNameLen), k \in {"str", "tuple"}}

Narratives == {NoneV} \cup {StrV(x) : x \in StringsUpTo(NarrativeChars, MaxNarrativeLen)}

UnitSerialize ==
    /\ pc = "unit"
    /\ basic_summary' = GenerateBasicStats(df_oai)
    /\ basic_text' = SerializeSummary(GenerateBasicStats(df_oai))
    /\ pc' = "unit_text"
    /\ UNCHANGED <<api_key, df_oai, ai_summary, visualization_paths, missing_branch,
                   pdf, txt, report_text, returned, thrown, escaped, log, trace,
                   disk, now>>
    /\ UNCHANGED <<adapterVars, pdfVars, otherVars>>

UnitBuildText ==
    /\ pc = "unit_text"
    /\ report_text' = BuildReportText(basic_text, ai_summary)
    /\ pc' = "unit_done"
    /\ UNCHANGED <<api_key, df_oai, basic_summary, basic_text, ai_summary,
                   visualization_paths, missing_branch, pdf, txt, returned, thrown,
                   escaped, log, trace, disk, now>>
    /\ UNCHANGED <<adapterVars, pdfVars, otherVars>>

UnitInit(frames, narratives) ==
    /\ api_key = TRUE
    /\ df_oai \in frames
    /\ pc = "unit"
    /\ model = OpenAICallable
    /\ backend = <<>>
    /\ AdapterIdle
    /\ basic_summary = NoSummary
    /\ basic_text = <<>>
    /\ ai_summary \in narratives
    /\ visualization_paths = <<>>
    /\ missing_branch = ""
    /\ pdf = [file |-> NoFile, stats |-> <<>>, insights |-> <<>>, images |-> <<>>]
    /\ txt = [file |-> NoFile, content |-> <<>>]
    /\ report_text = <<>>
    /\ returned = [pdf_file |-> NoFile, report_text |-> <<>>]
    /\ thrown = "none"
    /\ escaped = "none"
    /\ log = <<>>
    /\ trace = <<>>
    /\ disk = {}
    /\ now = 0
    /\ PdfIdle
    /\ OtherIdle

InitText == UnitInit(TextFrames, Narratives)

NextText == UnitSerialize \/ UnitBuildText

SpecText == InitText /\ [][NextText]_vars

(* the lines of a text that hold the AI-INTERPRETATION header and nothing else *)
HeaderLines(text) ==
    {i \in 1..Len(text) :
        /\ text[i] = "=== AI-INTERPRETATION ==="
        /\ (i = 1 \/ text[i - 1] = "nl")
        /\ (i < Len(text) /\ text[i + 1] = "nl")}

(* everything after the first header line *)
ParseInterpretation(text) ==
    LET i == CHOOSE k \in HeaderLines(text) : \A j \in HeaderLines(text) : k <= j
    IN  SubSeq(text, i + 2, Len(text))

(* C7: the combined text, read back from the line after the AI-INTERPRETATION
   header line, gives the narrative, or "None" for a null narrative, whatever
   the statistics and the narrative contain. *)
C7_TextRoundTrip ==
    (pc = "unit_done") =>
        /\ HeaderLines(report_text) # {}
        /\ ParseInterpretation(report_text) =
              (IF ai_summary = NoneV THEN NoneText ELSE ai_summary.s)

C7_Witness ==
    /\ pc = "unit_done"
    /\ df_oai.key_kind = "str"
    /\ df_oai.cols[1].name = <<"nl", "=== AI-INTERPRETATION ===", "nl">>
    /\ ai_summary = StrV(<<"=== AI-INTERPRETATION ===", "nl">>)
    /\ ParseInterpretation(report_text) = <<"=== AI-INTERPRETATION ===", "nl">>

----------------------------------------------------------------------------
(* generate_visualizations on its own *)

MaxCols == 3

ChartDtypes == {"int64", "float64", "object", "bool", "datetime64"}

(* the i-th column is named c<i> *)
ChartCols(k) ==
    {c \in [1..k -> [name : {<<"c", ToString(i)>> : i \in 1..k}, dtype : ChartDtypes,
                     missing : 0..1, counts : {<<>>}]] :
        \A i \in 1..k : c[i].name = <<"c", ToString(i)>>}

ChartFrames ==
    {[cols |-> c, rows |-> 2, key_kind |-> "str", corr |-> UniformCorr(c, Float(3))] :
        c \in UNION {ChartCols(k) : k \in 1..MaxCols}}

UnitRenderCharts ==
    /\ pc = "unit"
    /\ visualization_paths' = GenerateVisualizations(df_oai).saved_files
    /\ missing_branch' = GenerateVisualizations(df_oai).missing_branch
    /\ disk' = disk \cup {GenerateVisualizations(df_oai).saved_files[i] :
                           i \in 1..Len(GenerateVisualizations(df_oai).saved_files)}
    /\ pc' = "unit_done"
    /\ UNCHANGED <<api_key, df_oai, basic_summary, basic_text, ai_summary, pdf, txt,
                   report_text, returned, thrown, escaped, log, trace, now>>
    /\ UNCHANGED <<adapterVars, pdfVars, otherVars>>

InitCharts == UnitInit(ChartFrames, {NoneV})

NextCharts == UnitRenderCharts

SpecCharts == InitCharts /\ [][NextCharts]_vars

AllNumericNoMissing ==
    /\ \A i \in 1..Len(df_oai.cols) :
          df_oai.cols[i].dtype \in {"int64", "float64"} /\ df_oai.cols[i].missing = 0

FiveCharts ==
    <<ChartFile("01_correlation_heatmap.png"), ChartFile("02_histograms.png"),
      ChartFile("03_boxplots.png"), ChartFile("05_missing_data.png"),
      ChartFile("06_datatype_distribution.png")>>

(* C8 as stated: every all-numeric dataset without missing values gets the
   heatmap, histograms, box plots, missing-data and dtype-pie charts, in this
   order, no categorical chart, and the "No Missing Data Found" placeholder. *)
C8_AllNumericFiveCharts ==
    (pc = "unit_done" /\ AllNumericNoMissing) =>
        /\ visualization_paths = FiveCharts
        /\ missing_branch = "No Missing Data Found"

(* C8 as amended: this holds for an all-numeric dataset without missing values
   that has at least 2 columns; with a single numeric column the heatmap is
   left out and the other four charts are returned. *)
C8_TwoNumericColumnsFiveCharts ==
    /\ (pc = "unit_done" /\ AllNumericNoMissing /\ Len(df_oai.cols) >= 2) =>
          /\ visualization_paths = FiveCharts
          /\ missing_branch = "No Missing Data Found"
    /\ (pc = "unit_done" /\ AllNumericNoMissing /\ Len(df_oai.cols) = 1) =>
          /\ visualization_paths = Tail(FiveCharts)
          /\ missing_branch = "No Missing Data Found"
    /\ (pc = "unit_done" /\ AllNumericNoMissing) =>
          /\ \A i \in 1..Len(visualization_paths) :
                /\ visualization_paths[i] # ChartFile("04_categorical_distributions.png")
                /\ visualization_paths[i] \in disk

C8_Witness ==
    /\ pc = "unit_done"
    /\ AllNumericNoMissing
    /\ Len(df_oai.cols) = 3
    /\ visualization_paths = FiveCharts
    /\ missing_branch = "No Missing Data Found"

----------------------------------------------------------------------------
(* generate_basic_stats on its own *)

UnitComputeStats ==
    /\ pc = "unit"
    /\ basic_summary' = GenerateBasicStats(df_oai)
    /\ pc' = "unit_done"
    /\ UNCHANGED <<api_key, df_oai, basic_text, ai_summary, visualization_paths,
                   missing_branch, pdf, txt, report_text, returned, thrown, escaped,
                   log, trace, disk, now>>
    /\ UNCHANGED <<adapterVars, pdfVars, otherVars>>

MaxNumericCols == 4

(* correlations in tenths; NaN is the correlation with a constant column *)
CorrValues == {NaN, Float(0 - 2), Float(1), Float(2)}

NumericPairs(n) == {q \in (1..n) \X (1..n) : q[1] < q[2]}

CorrFrames ==
    {[cols |-> [i \in 1..n |-> [name |-> <<"c", ToString(i)>>, dtype |-> "float64",
                                missing |-> 0, counts |-> <<>>]],
      rows |-> 4, key_kind |-> "str", corr |-> c] :
        n \in 2..MaxNumericCols, c \in UNION {[NumericPairs(k) -> CorrValues] : k \in 2..MaxNumericCols}}

InitCorrelations ==
    /\ UnitInit(CorrFrames, {NoneV})
    /\ DOMAIN df_oai.corr = NumericPairs(Len(df_oai.cols))
    /\ \E constant \in SUBSET (1..Len(df_oai.cols)) :
          \A q \in NumericPairs(Len(df_oai.cols)) :
              df_oai.corr[q].nan <=> (q[1] \in constant \/ q[2] \in constant)

NextCorrelations == UnitComputeStats

SpecCorrelations == InitCorrelations /\ [][NextCorrelations]_vars

MinOf(a, b) == IF a < b THEN a ELSE b

(* position of a pair in the enumeration i < j, row by row *)
Before(x, y) == x.col1 < y.col1 \/ (x.col1 = y.col1 /\ x.col2 < y.col2)

(* C9: with 2 or more numeric columns, top_correlations has min(5, n(n-1)/2)
   entries, each an unordered pair (i < j) listed once, no entry has a smaller
   absolute correlation than a later one, and entries of equal absolute
   correlation keep their enumeration order; also when some correlations are
   undefined. *)
C9_TopCorrelationsSorted ==
    (pc = "unit_done" /\ Len(df_oai.cols) >= 2) =>
        LET top == basic_summary.top_correlations
            n == Len(df_oai.cols)
        IN  /\ Len(top) = MinOf(5, (n * (n - 1)) \div 2)
            /\ \A k \in 1..Len(top) :
                  /\ top[k].col1 < top[k].col2
                  /\ top[k].correlation = df_oai.corr[<<top[k].col1, top[k].col2>>]
            /\ \A k, l \in 1..Len(top) :
                  (k < l) =>
                     /\ <<top[k].col1, top[k].col2>> # <<top[l].col1, top[l].col2>>
                     /\ ~Lt(Abs(top[k].correlation), Abs(top[l].correlation))
                     /\ (Abs(top[k].correlation) = Abs(top[l].correlation)
                         /\ ~top[k].correlation.nan) => Before(top[k], top[l])

----------------------------------------------------------------------------
(* the entropy of a categorical column *)

MaxUnique == 3
MaxNulls == 5

CountValues == {1, 2}

(* value_counts(): the counts of the distinct non-null values, largest first *)
ValueCounts ==
    {c \in UNION {[1..k -> CountValues] : k \in 1..MaxUnique} :
        \A i \in 1..(Len(c) - 1) : c[i] >= c[i + 1]}

EntropyFrames ==
    {[cols |-> <<[name |-> <<"c">>, dtype |-> "object", missing |-> m, counts |-> c]>>,
      rows |-> SumSeq(c) + m, key_kind |-> "str", corr |-> <<>>] :
        c \in ValueCounts, m \in 0..MaxNulls}

InitEntropy == UnitInit(EntropyFrames, {NoneV})

NextEntropy == UnitComputeStats

SpecEntropy == InitEntropy /\ [][NextEntropy]_vars

(* 0 <= e, read on 2^(rows*e) = num/den *)
EntropyNonNegative(e) == e.num >= e.den

(* e <= log2(k), read on 2^(rows*e) = num/den *)
EntropyAtMostLog2(e, k) == k >= 1 /\ e.num <= Power(k, e.rows) * e.den

(* C10: every entropy that generate_basic_stats computes lies between 0 and
   log2(unique_count), columns with null values and columns with one unique
   value included. *)
C10_EntropyBounds ==
    (pc = "unit_done") =>
        \A i \in basic_summary.categorical :
            LET st == basic_summary.categorical_stats[i]
            IN  st.has_entropy =>
                   /\ EntropyNonNegative(st.entropy)
                   /\ EntropyAtMostLog2(st.entropy, st.unique_values)

----------------------------------------------------------------------------
(* PDFReportGenerator.generate_pdf_report on its own: any basic_text argument,
   any list of chart paths, any state of the disk *)

(* a flowable of the story *)
Flowable(kind, text, path) == [kind |-> kind, text |-> text, path |-> path]
Paragraph(kind, text) == Flowable(kind, text, NoFile)
Spacer == Flowable("spacer", <<>>, NoFile)

(* Path.suffix.lower() of the paths used here *)
Suffix(p) ==
    IF p.name = "notes.txt" THEN ".txt"
    ELSE IF p.name = "scan.JPG" THEN ".jpg"
    ELSE ".png"

(* _format_statistics_for_pdf on what json.loads returned: the text, or the
   exception of the first statement that fails *)
FormatParsedStatistics(j) ==
    IF j.t \in {"number", "null"} THEN [exc |-> "TypeError", text |-> <<>>]
    ELSE IF j.t = "list" THEN [exc |-> "none", text |-> <<>>]
    ELSE LET bs == j.basic_stats
             ns == j.numeric_stats
         IN  IF bs.present /\ ~bs.is_dict THEN [exc |-> "AttributeError", text |-> <<>>]
             ELSE IF bs.present /\ bs.memory_usage \in {"absent", "str"}
                  THEN [exc |-> "ValueError", text |-> <<>>]
             ELSE IF bs.present /\ bs.memory_usage = "null"
                  THEN [exc |-> "TypeError", text |-> <<>>]
             ELSE IF ns = "number" THEN [exc |-> "TypeError", text |-> <<>>]
             ELSE [exc |-> "none",
                   text |->
                     (IF bs.present
                      THEN <<"<b>Dataset Overview:</b><br/>",
                             "Rows: ", (IF bs.has_rows THEN "3" ELSE "N/A"), "<br/>",
                             "Columns: ", (IF bs.has_columns THEN "2" ELSE "N/A"), "<br/>",
                             "Memory Usage: ", "0.00", " MB<br/><br/>">>
                      ELSE <<>>)
                     \o (IF ns # "absent"
                         THEN <<"<b>Numeric Columns Summary:</b><br/>">> ELSE <<>>)
                     \o (IF ns = "with basic"
                         THEN <<"Descriptive statistics available for numeric columns<br/><br/>">>
                         ELSE <<>>)]

(* lines 109-121: what the Basic Statistics section receives *)
PdfStatsSection(arg) ==
    IF ~arg.is_str THEN <<>>
    ELSE IF arg.json.t = "JSONDecodeError"
         THEN <<Paragraph("raw", ReplaceNewlines(arg.text))>>
    ELSE IF FormatParsedStatistics(arg.json).exc = "none"
         THEN <<Paragraph("stats", FormatParsedStatistics(arg.json).text)>>
    ELSE <<Paragraph("error", <<"Error processing statistics: ",
                                FormatParsedStatistics(arg.json).exc>>)>>

(* lines 143-154: one chart path.  Image() of a file that does not load raises in
   the constructor when it reads the file at once (eager); otherwise the file is
   read by doc.build *)
PdfChart(p, files, bad, eager) ==
    IF p \in files /\ Suffix(p) \in {".png", ".jpg", ".jpeg"}
    THEN IF p \in bad /\ eager
         THEN <<Paragraph("note", <<"Error loading visualization: ", p.name>>)>>
         ELSE <<Flowable("image", <<>>, p), Spacer>>
    ELSE <<>>

(* lines 137-154 *)
PdfVisualizations(paths, files, bad, eager) ==
    IF paths = <<>> THEN <<>>
    ELSE <<Flowable("pagebreak", <<>>, NoFile),
           Paragraph("heading", <<"Data Visualizations">>), Spacer>>
         \o Concat([i \in 1..Len(paths) |-> PdfChart(paths[i], files, bad, eager)])

(* lines 93-154: the story handed to doc.build *)
PdfStory(arg, narrative, paths, files, bad, eager) ==
    <<Paragraph("title", <<"AutoReport">>), Spacer,
      Paragraph("timestamp", <<"Generated on: ">>), Spacer,
      Paragraph("heading", <<"Basic Statistics">>), Spacer>>
    \o PdfStatsSection(arg)
    \o <<Spacer, Paragraph("heading", <<"AI-Generated Insights">>), Spacer,
         Paragraph("insights", PdfInsights(narrative).text), Spacer>>
    \o PdfVisualizations(paths, files, bad, eager)

(* line 157: doc.build reads every image of the story *)
BuildFailsOnImage(st, bad) ==
    \E i \in 1..Len(st) : st[i].kind = "image" /\ st[i].path \in bad

UnitGeneratePdf ==
    /\ pc = "unit"
    /\ \E eager \in BOOLEAN, build_ok \in BOOLEAN :
        LET st == PdfStory(pdf_basic_text, ai_summary, visualization_paths, disk,
                           unreadable, eager)
            pdf_file == File("reports", "report_.pdf", now)
            section == SelectSeq(st, LAMBDA f : f.kind \in {"stats", "raw", "error"})
            images == SelectSeq(st, LAMBDA f : f.kind = "image")
        IN  /\ story' = st
            /\ IF BuildFailsOnImage(st, unreadable) \/ ~build_ok
               THEN /\ thrown' = (IF BuildFailsOnImage(st, unreadable)
                                  THEN "image error" ELSE "OSError")
                    /\ escaped' = thrown'
                    /\ pc' = "unit_raised"
                    /\ UNCHANGED <<pdf, disk>>
               ELSE /\ pdf' = [file |-> pdf_file,
                               stats |-> IF section = <<>> THEN <<>> ELSE section[1].text,
                               insights |-> PdfInsights(ai_summary).text,
                               images |-> [i \in 1..Len(images) |-> images[i].path]]
                    /\ disk' = disk \cup {pdf_file}
                    /\ pc' = "unit_done"
                    /\ UNCHANGED <<thrown, escaped>>
    /\ UNCHANGED <<api_key, df_oai, basic_summary, basic_text, ai_summary,
                   visualization_paths, missing_branch, txt, report_text, returned,
                   log, trace, now>>
    /\ UNCHANGED <<pdf_basic_text, unreadable>>
    /\ UNCHANGED <<adapterVars, otherVars>>

MaxPaths == 2

UnitPaths ==
    {ChartFile("01_correlation_heatmap.png"), ChartFile("02_histograms.png"),
     File("reports/visualizations", "notes.txt", 0 - 1)}

PathLists == UNION {[1..k -> UnitPaths] : k \in 0..MaxPaths}

BasicStatsShapes ==
    {[present |-> FALSE, is_dict |-> FALSE, has_rows |-> FALSE, has_columns |-> FALSE,
      memory_usage |-> "absent"],
     [present |-> TRUE, is_dict |-> FALSE, has_rows |-> FALSE, has_columns |-> FALSE,
      memory_usage |-> "absent"]}
    \cup [present : {TRUE}, is_dict : {TRUE}, has_rows : BOOLEAN, has_columns : {TRUE},
          memory_usage : {"absent", "float", "str", "null"}]

(* what json.loads returns on a valid JSON text *)
ParsedValues ==
    {[t |-> "number"], [t |-> "list"]}
    \cup [t : {"dict"}, basic_stats : BasicStatsShapes,
          numeric_stats : {"absent", "with basic", "without basic", "number"}]

(* the basic_text argument: not a str; a str that is no JSON; a str of JSON *)
StatsArguments ==
    {[is_str |-> FALSE, text |-> <<"{...}">>, json |-> [t |-> "none"]],
     [is_str |-> TRUE, text |-> <<"rows", "sp", "3", "nl", "columns", "sp", "2">>,
      json |-> [t |-> "JSONDecodeError"]]}
    \cup {[is_str |-> TRUE, text |-> <<"{...}">>, json |-> j] : j \in ParsedValues}

InitPdf ==
    /\ api_key = TRUE
    /\ df_oai = NoDF
    /\ pc = "unit"
    /\ model = OpenAICallable
    /\ backend = <<>>
    /\ AdapterIdle
    /\ OtherIdle
    /\ basic_summary = NoSummary
    /\ basic_text = <<>>
    /\ ai_summary \in {NoneV, StrV(<<"a", "nl", "b">>)}
    /\ visualization_paths \in PathLists
    /\ missing_branch = ""
    /\ pdf = [file |-> NoFile, stats |-> <<>>, insights |-> <<>>, images |-> <<>>]
    /\ txt = [file |-> NoFile, content |-> <<>>]
    /\ report_text = <<>>
    /\ returned = [pdf_file |-> NoFile, report_text |-> <<>>]
    /\ thrown = "none"
    /\ escaped = "none"
    /\ log = <<>>
    /\ trace = <<>>
    /\ disk \in SUBSET UnitPaths
    /\ now = 0
    /\ pdf_basic_text \in StatsArguments
    /\ unreadable \in SUBSET disk
    /\ story = <<>>

NextPdf == UnitGeneratePdf

SpecPdf == InitPdf /\ [][NextPdf]_vars

----------------------------------------------------------------------------
(* Claims about PDFReportGenerator.generate_pdf_report *)

(* the call is over, and the write of the file did not fail for a reason of its own *)
PdfReturned == pc \in {"unit_done", "unit_raised"} /\ story # <<>> /\ escaped # "OSError"

NoteFor(p) == Paragraph("note", <<"Error loading visualization: ", p.name>>)

(* a chart path that names no file, or a file that does not load as an image *)
MissingOrUnloadable(p) == p \notin disk \/ p \in unreadable

(* C11: every chart path that is a missing file or a file that does not load as
   an image is left out of the document, a placeholder note stands in the
   document for it, and the document is built without an exception caused by a
   chart. *)
C11_MissingChartGetsPlaceholder ==
    PdfReturned =>
        /\ escaped # "image error"
        /\ \A i \in 1..Len(visualization_paths) :
              MissingOrUnloadable(visualization_paths[i]) =>
                 /\ \A k \in 1..Len(story) :
                       ~(story[k].kind = "image" /\ story[k].path = visualization_paths[i])
                 /\ \E k \in 1..Len(story) : story[k] = NoteFor(visualization_paths[i])

(* a statistics argument that is not a str, is no JSON, or is JSON on which
   _format_statistics_for_pdf fails *)
MalformedStatistics(arg) ==
    \/ ~arg.is_str
    \/ arg.json.t = "JSONDecodeError"
    \/ FormatParsedStatistics(arg.json).exc # "none"

(* C12: whatever the statistics argument, the document is still built with its
   other sections, and for a statistics argument that is not a str, is no JSON
   or lacks the expected fields the Basic Statistics section holds the raw
   statistics text. *)
C12_StatisticsFallbackToRawText ==
    PdfReturned =>
        /\ \E k \in 1..Len(story) : story[k].kind = "insights"
        /\ escaped \in {"none", "image error"}
        /\ MalformedStatistics(pdf_basic_text) =>
              \E k \in 1..Len(story) : story[k].kind = "raw"

----------------------------------------------------------------------------
(* Two runs of generate_report at the same time, in two processes that share the
   reports directory and the clock.  The first run is the one of Spec; the
   second is followed through the statements that write files. *)

Range(f) == {f[i] : i \in DOMAIN f}

OtherFrames ==
    {[cols |-> <<c>>, rows |-> 2, key_kind |-> "str", corr |-> <<>>] :
        c \in {x \in PipelineCols : x.dtype \in {"int64", "object"}}}

(* lines 18-73 of the second run: configuration, statistics and the adapter
   write no file; it starts while the first run is under way *)
OtherStart ==
    /\ other.pc = "none"
    /\ pc \notin {"start", "done", "raised"}
    /\ \E df \in OtherFrames :
          other' = [other EXCEPT !.pc = "charts", !.df = df]
    /\ UNCHANGED <<adapterVars, reportVars, pdfVars>>

(* lines 76-78 of the second run *)
OtherRenderCharts ==
    /\ other.pc = "charts"
    /\ other' = [other EXCEPT
                    !.pc = "pdf",
                    !.written = @ \cup Range(GenerateVisualizations(other.df).saved_files)]
    /\ disk' = disk \cup Range(GenerateVisualizations(other.df).saved_files)
    /\ UNCHANGED <<api_key, df_oai, pc, basic_summary, basic_text, ai_summary,
                   visualization_paths, missing_branch, pdf, txt, report_text,
                   returned, thrown, escaped, log, trace, now>>
    /\ UNCHANGED <<adapterVars, pdfVars>>

(* lines 80-89 of the second run: report_<timestamp>.pdf *)
OtherBuildPdf ==
    /\ other.pc = "pdf"
    /\ other' = [other EXCEPT
                    !.pc = "text",
                    !.written = @ \cup {File("reports", "report_.pdf", now)},
                    !.stamps = @ \cup {now}]
    /\ disk' = disk \cup {File("reports", "report_.pdf", now)}
    /\ UNCHANGED <<api_key, df_oai, pc, basic_summary, basic_text, ai_summary,
                   visualization_paths, missing_branch, pdf, txt, report_text,
                   returned, thrown, escaped, log, trace, now>>
    /\ UNCHANGED <<adapterVars, pdfVars>>

(* lines 91-108 of the second run: whr_2015_analysis_<timestamp>.txt *)
OtherWriteText ==
    /\ other.pc = "text"
    /\ other' = [other EXCEPT
                    !.pc = "done",
                    !.written = @ \cup {File("reports", "whr_2015_analysis_.txt", now)},
                    !.stamps = @ \cup {now}]
    /\ disk' = disk \cup {File("reports", "whr_2015_analysis_.txt", now)}
    /\ UNCHANGED <<api_key, df_oai, pc, basic_summary, basic_text, ai_summary,
                   visualization_paths, missing_branch, pdf, txt, report_text,
                   returned, thrown, escaped, log, trace, now>>
    /\ UNCHANGED <<adapterVars, pdfVars>>

(* the clock also runs while only the second run is under way *)
OtherTick ==
    /\ pc \in {"done", "raised"}
    /\ other.pc \notin {"none", "done"}
    /\ now < MaxClock
    /\ now' = now + 1
    /\ UNCHANGED <<api_key, df_oai, pc, basic_summary, basic_text, ai_summary,
                   visualization_paths, missing_branch, pdf, txt, report_text,
                   returned, thrown, escaped, log, trace, disk>>
    /\ UNCHANGED <<adapterVars, pdfVars, otherVars>>

NextTwoRuns ==
    \/ Next
    \/ OtherStart
    \/ OtherRenderCharts
    \/ OtherBuildPdf
    \/ OtherWriteText
    \/ OtherTick

SpecTwoRuns == Init /\ [][NextTwoRuns]_vars

(* the files the first run has written, and the timestamps in their names *)
Written == (Range(visualization_paths) \cup {pdf.file, txt.file}) \ {NoFile}
Stamps == {f.ts : f \in {pdf.file, txt.file} \ {NoFile}}

(* C13: when the timestamps in the file names of two overlapping runs fall in
   different seconds, no file path is written by both runs: chart images, PDF
   and text report of one run are all distinct from those of the other. *)
C13_OverlappingRunsDistinctPaths ==
    (pc = "done" /\ other.pc = "done" /\ Stamps \cap other.stamps = {}) =>
        Written \cap other.written = {}

----------------------------------------------------------------------------
(* Claims about the arguments and the result of generate_report *)

(* C14: with the API key configured, a call without a dataset does not fail for
   want of a dataset: it goes on to report on the default dataset. *)
C14_NoDatasetUsesDefault ==
    (api_key /\ df_oai = NoDF /\ pc # "start") =>
        /\ pc # "raised"
        /\ escaped # "ValueError: df_oai was not provided"

(* C15: a run that succeeds returns the path of the PDF this run wrote and the
   combined text, and the text is the content of this run's text file; a run
   that has not succeeded has returned nothing. *)
C15_ReturnsPdfPathAndText ==
    /\ (pc = "done") =>
          /\ returned.pdf_file = pdf.file
          /\ pdf.file # NoFile
          /\ pdf.file \in disk
          /\ returned.report_text = txt.content
          /\ returned.report_text = BuildReportText(basic_text, ai_summary)
          /\ txt.file # NoFile
          /\ txt.file \in disk
    /\ (pc # "done") => returned = [pdf_file |-> NoFile, report_text |-> <<>>]

C15_Witness ==
    /\ pc = "done"
    /\ ai_summary = StrV(<<"m">>)
    /\ returned.pdf_file = File("reports", "report_.pdf", 0)
    /\ txt.file = File("reports", "whr_2015_analysis_.txt", 1)
    /\ returned.report_text = txt.content
    /\ Len(returned.report_text) > Len(basic_text)

(* C17: a summary that json.dumps cannot serialize does not stop the run: the
   text is the str() form of the summary, and no TypeError of the
   serialization reaches the caller. *)
C17_UnserializableSummaryStillReports ==
    (Len(trace) >= 1 /\ ~JsonSerializable(basic_summary)) =>
        /\ basic_text = PyStrDict(basic_summary)
        /\ escaped # "TypeError"

----------------------------------------------------------------------------
(* C16: whatever the backend does, generate_ai_summary returns, and what it
   returns is None or a str without leading or trailing whitespace; it returns
   None only after max_retries attempts that all failed. *)
C16_ResultNoneOrStrippedString ==
    (apc = "returned") =>
        /\ result = NoneV \/ (result.t = "str" /\ Strip(result.s) = result.s)
        /\ (result = NoneV) => (Len(outcomes) = max_retries /\ AllAttemptsFailed)

====
